---------------------------- MODULE Spec2Model ----------------------------
(***************************************************************************)
(* A model of the fol-equality crate: the Term value type, the tree        *)
(* substitution Term::apply, the Premise fact base (equalities and alias   *)
(* definitions) and the recursive decision procedure equals / dfs.         *)
(*                                                                         *)
(* A Term<Literal> is a record [kind, symbol, arguments]; the three enum   *)
(* variants are the three values of kind, and a Literal carries the empty  *)
(* argument list.  Literal values are natural numbers (the tests' ID).     *)
(***************************************************************************)
EXTENDS Naturals, Integers, Sequences, FiniteSets, TLC

VARIABLES
    equalities,     \* Premise.equalities : BTreeMap<Term, BTreeSet<Term>>
    normalizables,  \* Premise.normalizables : BTreeMap<Literal, Normalization>
    op,             \* the operation performed last
    args,           \* its arguments
    ret,            \* what it returned
    inProgress,     \* equals' local set `visited`, as the last call left it
    firstReg        \* history: the first registration attempted for each symbol

vars == <<equalities, normalizables, op, args, ret, inProgress, firstReg>>

----------------------------------------------------------------------------
(* Bounds of the model *)

\* frames of dfs / apply recursion the native stack holds before the process aborts
MaxStack == 10

----------------------------------------------------------------------------
(* term.rs *)

Literal(l) == [kind |-> "Literal", symbol |-> l, arguments |-> <<>>]

Function(s, a) == [kind |-> "Function", symbol |-> s, arguments |-> a]

Normalizable(s, a) == [kind |-> "Normalizable", symbol |-> s, arguments |-> a]

\* the value standing for "the process overflowed its stack and aborted"
Overflow == [kind |-> "Overflow", symbol |-> 0, arguments |-> <<>>]

\* position of the variant in the enum declaration: #[derive(PartialOrd, Ord)]
VariantIndex(t) ==
    CASE t.kind = "Literal" -> 0
      [] t.kind = "Function" -> 1
      [] t.kind = "Normalizable" -> 2
      [] OTHER -> 3

RECURSIVE TermCmp(_, _)
RECURSIVE ArgsCmp(_, _, _)

\* an Ordering that is not Equal decides; otherwise the next position does
ThenArgsCmp(c, a, b, i) == IF c # 0 THEN c ELSE ArgsCmp(a, b, i + 1)

\* derived Ord of Vec<Term>: lexicographic, a proper prefix is smaller
ArgsCmp(a, b, i) ==
    IF i > Len(a) /\ i > Len(b) THEN 0
    ELSE IF i > Len(a) THEN -1
    ELSE IF i > Len(b) THEN 1
    ELSE ThenArgsCmp(TermCmp(a[i], b[i]), a, b, i)

\* derived Ord of Term: variant, then symbol, then arguments
TermCmp(a, b) ==
    IF VariantIndex(a) # VariantIndex(b)
    THEN (IF VariantIndex(a) < VariantIndex(b) THEN -1 ELSE 1)
    ELSE IF a.symbol # b.symbol
    THEN (IF a.symbol < b.symbol THEN -1 ELSE 1)
    ELSE ArgsCmp(a.arguments, b.arguments, 1)

\* the first element of a BTreeSet<Term>
Least(S) == CHOOSE x \in S : \A y \in S : TermCmp(x, y) <= 0

RECURSIVE Ordered(_)

OrderedFrom(m, S) == <<m>> \o Ordered(S \ {m})

\* iteration order of a BTreeSet<Term> / of the keys of a BTreeMap<Term, _>
Ordered(S) == IF S = {} THEN <<>> ELSE OrderedFrom(Least(S), S)

----------------------------------------------------------------------------
(* substitution.rs *)

RECURSIVE Apply(_, _, _, _)
RECURSIVE ApplyArguments(_, _, _, _, _)

\* the loop goes on with the rewritten argument a in place, unless the call aborted
ApplyNextArgument(a, arguments, i, from, to, d) ==
    IF a = Overflow THEN Overflow
    ELSE ApplyArguments([arguments EXCEPT ![i] = a], i + 1, from, to, d)

\* for argument in arguments { argument.apply(from, to) }
ApplyArguments(arguments, i, from, to, d) ==
    IF i > Len(arguments) THEN arguments
    ELSE ApplyNextArgument(Apply(arguments[i], from, to, d),
                           arguments, i, from, to, d)

\* self with its arguments rewritten to a
WithArguments(self, a) ==
    IF a = Overflow THEN Overflow ELSE [self EXCEPT !.arguments = a]

\* match self { Literal(_) => {}, Function | Normalizable => for argument ... }
ApplyChildren(self, from, to, d) ==
    IF self.kind = "Literal" THEN self
    ELSE WithArguments(self, ApplyArguments(self.arguments, 1, from, to, d + 1))

\* Term::apply at recursion depth d; the term after the in-place rewrite
Apply(self, from, to, d) ==
    IF d > MaxStack THEN Overflow
    ELSE ApplyChildren(IF self = from THEN to ELSE self, from, to, d)

----------------------------------------------------------------------------
(* premise.rs *)

RECURSIVE ApplyParameters(_, _, _, _, _)
\* for (from, to) in parameters.zip(arguments) { equivalence.apply(Literal(from), to) }
ApplyParameters(equivalence, parameters, arguments, i, d) ==
    IF i > Len(parameters) \/ equivalence = Overflow THEN equivalence
    ELSE ApplyParameters(
            Apply(equivalence, Literal(parameters[i]), arguments[i], d),
            parameters, arguments, i + 1, d)

\* Option<Term>: None is the empty sequence, Some(t) is <<t>>
None == <<>>

Some(t) == <<t>>

\* Normalization::equivalence, called at recursion depth d
Equivalence(normalization, arguments, d) ==
    IF Len(normalization.parameters) # Len(arguments) THEN None
    ELSE Some(ApplyParameters(normalization.equivalence,
                              normalization.parameters, arguments, 1, d))

\* Premise::default
EmptyMap == [k \in {} |-> {}]

\* self.equalities.entry(key).or_default().insert(value)
EntryInsert(map, key, value) ==
    [k \in DOMAIN map \cup {key} |->
        IF k = key
        THEN (IF key \in DOMAIN map THEN map[key] ELSE {}) \cup {value}
        ELSE map[k]]

\* Premise::insert recording the fact under term1 only
InsertOneWay(map, term1, term2) == EntryInsert(map, term1, term2)

\* Premise::insert: the map after the call
Insert(map, term1, term2) ==
    EntryInsert(EntryInsert(map, term1, term2), term2, term1)

RECURSIVE NewWithEqualities(_, _, _)
\* Premise::new_with_equalities: the map of the premise it builds
NewWithEqualities(map, terms, i) ==
    IF i > Len(terms) THEN map
    ELSE NewWithEqualities(Insert(map, terms[i][1], terms[i][2]), terms, i + 1)

\* Premise::get_normalization
GetNormalization(map, symbol) ==
    IF symbol \in DOMAIN map THEN Some(map[symbol]) ELSE None

\* Premise::insert_normalization written with BTreeMap::insert: the last one wins
InsertNormalizationOverwrite(map, symbol, parameters, equivalence) ==
    [ret |-> symbol \notin DOMAIN map,
     map |-> [s \in DOMAIN map \cup {symbol} |->
                IF s = symbol
                THEN [parameters |-> parameters, equivalence |-> equivalence]
                ELSE map[s]]]

\* Premise::insert_normalization: [ret, map]
InsertNormalization(map, symbol, parameters, equivalence) ==
    IF symbol \in DOMAIN map
    THEN [ret |-> FALSE, map |-> map]
    ELSE [ret |-> TRUE,
          map |-> [s \in DOMAIN map \cup {symbol} |->
                     IF s = symbol
                     THEN [parameters |-> parameters, equivalence |-> equivalence]
                     ELSE map[s]]]

\* &Premise as the engine reads it: the two maps, with the order in which the
\* BTreeMap yields its keys and each BTreeSet its members
Premise(eq, norm) ==
    [equalities |-> eq,
     keys |-> Ordered(DOMAIN eq),
     values |-> [k \in DOMAIN eq |-> Ordered(eq[k])],
     normalizables |-> norm]

\* premise.equalities().get(term) finding no entry, whatever the term
GetNothing(premise, term) == <<>>

\* premise.equalities().get(term): the set, in its iteration order
Get(premise, term) ==
    IF term \in DOMAIN premise.equalities THEN premise.values[term] ELSE <<>>

----------------------------------------------------------------------------
(* lib.rs: the engine.  Every operator takes the in-progress set `visited` *)
(* and returns [abort, res, visited]: whether the process overflowed its   *)
(* stack, the boolean returned, and the set as the call leaves it.  d is   *)
(* the depth of the dfs frame the call runs in.                            *)
(* visited.pairs is the HashSet of the code.  The other fields are history *)
(* the code does not keep: stack, the pairs of the dfs frames past their   *)
(* cycle guard that have not returned; failed, the pairs whose frame ran   *)
(* out of strategies; exact, whether after every insert and every return   *)
(* so far pairs was stack \cup failed and held no pair of identical terms. *)

\* let mut visited = HashSet::new()
Fresh == [pairs |-> {}, stack |-> {}, failed |-> {}, exact |-> TRUE]

\* the history checked against the set p, the frames s and the failures f
Recorded(visited, p, s, f) ==
    [pairs |-> p, stack |-> s, failed |-> f,
     exact |-> /\ visited.exact
               /\ p = s \cup f
               /\ \A e \in p : e[1] # e[2]]

\* visited.insert((term, term2)) by a frame that goes on to its strategies
Mark(visited, pair) ==
    Recorded(visited, visited.pairs \cup {pair}, visited.stack \cup {pair},
             visited.failed)

\* visited.remove(&(term, term2)) by the frame of the pair, which returns true
Remove(visited, pair) ==
    Recorded(visited, visited.pairs \ {pair}, visited.stack \ {pair},
             visited.failed)

\* the frame of the pair returns false, the set left as it is
Fail(visited, pair) ==
    Recorded(visited, visited.pairs, visited.stack \ {pair},
             visited.failed \cup {pair})

Ret(res, visited) == [abort |-> FALSE, res |-> res, visited |-> visited]

Abort(visited) == [abort |-> TRUE, res |-> FALSE, visited |-> visited]

\* a failed or aborted step ends its caller; res = "succeeded"
Stops(r) == r.abort \/ r.res

RECURSIVE Dfs(_, _, _, _, _)
RECURSIVE UnifyArguments(_, _, _, _, _, _)
RECURSIVE DfsValues(_, _, _, _, _, _, _)
RECURSIVE BridgeKey(_, _, _, _, _, _, _, _)
RECURSIVE BridgeKeys(_, _, _, _, _, _, _)

\* if !dfs(arg1, arg2) { unification_succeed = false; break }, r what dfs returned
UnifyNextArgument(r, args1, args2, i, premise, d) ==
    IF r.abort \/ ~r.res THEN r
    ELSE UnifyArguments(args1, args2, i + 1, premise, r.visited, d)

\* for (arg1, arg2) in args1.iter().zip(args2.iter()) { ... }
UnifyArguments(args1, args2, i, premise, visited, d) ==
    IF i > Len(args1) THEN Ret(TRUE, visited)
    ELSE UnifyNextArgument(Dfs(args1[i], args2[i], premise, visited, d + 1),
                           args1, args2, i, premise, d)

\* the shorter of two lengths, where zip stops
Min(m, n) == IF m < n THEN m ELSE n

\* equals_by_unification without the guard on the argument counts
EqualsByUnificationAnyArity(term1, term2, premise, visited, d) ==
    IF /\ term1.kind = term2.kind
       /\ term1.kind \in {"Function", "Normalizable"}
       /\ term1.symbol = term2.symbol
    THEN UnifyArguments(
            SubSeq(term1.arguments, 1,
                   Min(Len(term1.arguments), Len(term2.arguments))),
            term2.arguments, 1, premise, visited, d)
    ELSE Ret(FALSE, visited)

\* equals_by_unification comparing the arguments with == instead of dfs
EqualsByUnificationShallow(term1, term2, premise, visited, d) ==
    Ret(/\ term1.kind = term2.kind
        /\ term1.kind \in {"Function", "Normalizable"}
        /\ term1.symbol = term2.symbol
        /\ term1.arguments = term2.arguments, visited)

\* equals_by_unification
EqualsByUnification(term1, term2, premise, visited, d) ==
    IF /\ term1.kind = term2.kind
       /\ term1.kind \in {"Function", "Normalizable"}
       /\ term1.symbol = term2.symbol
       /\ Len(term1.arguments) = Len(term2.arguments)
    THEN UnifyArguments(term1.arguments, term2.arguments, 1, premise, visited, d)
    ELSE Ret(FALSE, visited)

\* normalization.equivalence(&term.arguments) of an Option<&Normalization>
EquivalenceOf(n, arguments, d) ==
    IF n = None THEN None ELSE Equivalence(n[1], arguments, d)

\* if let Normalizable(t) = term, Some(n) = get_normalization(t.symbol),
\* Some(e) = n.equivalence(t.arguments): the Option<Term> e
Expansion(term, premise, d) ==
    IF term.kind # "Normalizable" THEN None
    ELSE EquivalenceOf(GetNormalization(premise.normalizables, term.symbol),
                       term.arguments, d + 1)

\* return dfs(&equivalence, term2, ..) (left) / return dfs(term1, &equivalence, ..)
DfsExpansion(e, other, left, premise, visited, d) ==
    IF e = Overflow THEN Abort(visited)
    ELSE IF left THEN Dfs(e, other, premise, visited, d + 1)
    ELSE Dfs(other, e, premise, visited, d + 1)

\* the second if-let of equals_by_normalization, e2 the expansion of term2
NormalizeSecond(e2, term1, premise, visited, d) ==
    IF e2 # None THEN DfsExpansion(e2[1], term1, FALSE, premise, visited, d)
    ELSE Ret(FALSE, visited)

\* the first if-let of equals_by_normalization, e1 the expansion of term1
NormalizeFirst(e1, term1, term2, premise, visited, d) ==
    IF e1 # None THEN DfsExpansion(e1[1], term2, TRUE, premise, visited, d)
    ELSE NormalizeSecond(Expansion(term2, premise, d), term1, premise, visited, d)

\* equals_by_normalization
EqualsByNormalization(term1, term2, premise, visited, d) ==
    NormalizeFirst(Expansion(term1, premise, d), term1, term2, premise, visited, d)

\* if dfs(..) { return true }, r what dfs returned; otherwise the next value
DfsNextValue(r, values, i, other, left, premise, d) ==
    IF Stops(r) THEN r
    ELSE DfsValues(values, i + 1, other, left, premise, r.visited, d)

\* the loop returning what dfs says of the first value: return dfs(value, other)
DfsValuesFirstOnly(values, i, other, left, premise, visited, d) ==
    IF i > Len(values) THEN Ret(FALSE, visited)
    ELSE IF left THEN Dfs(values[i], other, premise, visited, d + 1)
    ELSE Dfs(other, values[i], premise, visited, d + 1)

\* for value in values { if dfs(value, other) { return true } }   (left)
\* for value in values { if dfs(other, value) { return true } }   (~left)
DfsValues(values, i, other, left, premise, visited, d) ==
    IF i > Len(values) THEN Ret(FALSE, visited)
    ELSE DfsNextValue(
            IF left THEN Dfs(values[i], other, premise, visited, d + 1)
            ELSE Dfs(other, values[i], premise, visited, d + 1),
            values, i, other, left, premise, d)

\* the j-th of the four tests of the loop body of "unify/normalize the premise"
BridgeTest(j, term, term2, key, premise, visited, d) ==
    IF j <= 2
    THEN EqualsByUnification(IF j = 1 THEN term ELSE key,
                             IF j = 1 THEN key ELSE term2, premise, visited, d)
    ELSE EqualsByNormalization(IF j = 3 THEN term ELSE key,
                               IF j = 3 THEN key ELSE term2, premise, visited, d)

\* after the values of the j-th test: return true, or go on to the next test
BridgeAfterValues(r, j, term, term2, key, values, premise, d) ==
    IF Stops(r) THEN r
    ELSE BridgeKey(j + 1, term, term2, key, values, premise, r.visited, d)

\* after the j-th test returned t: when it held, for value in values { ... }
BridgeAfterTest(t, j, term, term2, key, values, premise, d) ==
    IF t.abort THEN t
    ELSE IF ~t.res
    THEN BridgeKey(j + 1, term, term2, key, values, premise, t.visited, d)
    ELSE BridgeAfterValues(
            DfsValues(values, 1, IF j \in {1, 3} THEN term2 ELSE term,
                      j \in {1, 3}, premise, t.visited, d),
            j, term, term2, key, values, premise, d)

\* the loop body for one (key, values), from its j-th test on; res = "return true"
BridgeKey(j, term, term2, key, values, premise, visited, d) ==
    IF j > 4 THEN Ret(FALSE, visited)
    ELSE BridgeAfterTest(BridgeTest(j, term, term2, key, premise, visited, d),
                         j, term, term2, key, values, premise, d)

\* after the loop body for keys[i]: return true, or the next key
BridgeNextKey(r, keys, i, term, term2, premise, d) ==
    IF Stops(r) THEN r
    ELSE BridgeKeys(keys, i + 1, term, term2, premise, r.visited, d)

\* for (key, values) in premise.equalities() { ... }
BridgeKeys(keys, i, term, term2, premise, visited, d) ==
    IF i > Len(keys) THEN Ret(FALSE, visited)
    ELSE BridgeNextKey(
            BridgeKey(1, term, term2, keys[i], premise.values[keys[i]],
                      premise, visited, d),
            keys, i, term, term2, premise, d)

\* "try to look for a mapping in the premise", second loop, and what follows it
LookupSecond(r, term, term2, premise, d) ==
    IF Stops(r) THEN r
    ELSE BridgeKeys(premise.keys, 1, term, term2, premise, r.visited, d)

\* "try to look for a mapping in the premise", first loop, and what follows it
LookupFirst(r, term, term2, premise, d) ==
    IF Stops(r) THEN r
    ELSE LookupSecond(
            DfsValues(Get(premise, term2), 1, term, FALSE, premise, r.visited, d),
            term, term2, premise, d)

\* "try to normalize", r what equals_by_normalization returned, and what follows
TryNormalize(r, term, term2, premise, d) ==
    IF Stops(r) THEN r
    ELSE LookupFirst(
            DfsValues(Get(premise, term), 1, term2, TRUE, premise, r.visited, d),
            term, term2, premise, d)

\* "try to unify", r what equals_by_unification returned, and what follows
TryUnify(r, term, term2, premise, d) ==
    IF Stops(r) THEN r
    ELSE TryNormalize(EqualsByNormalization(term, term2, premise, r.visited, d),
                      term, term2, premise, d)

\* the body of dfs once the pair is recorded; res = "some strategy returned true"
Strategies(term, term2, premise, visited, d) ==
    TryUnify(EqualsByUnification(term, term2, premise, visited, d),
             term, term2, premise, d)

\* dfs removing the pair on every return, true or false
UnmarkAlways(r, term, term2) ==
    IF r.abort THEN r
    ELSE IF r.res THEN Ret(TRUE, Remove(r.visited, <<term, term2>>))
    ELSE Ret(FALSE, Fail(Remove(r.visited, <<term, term2>>), <<term, term2>>))

\* visited.remove(&(term, term2)); return true  /  false, the pair left marked
Unmark(r, term, term2) ==
    IF r.abort THEN r
    ELSE IF r.res THEN Ret(TRUE, Remove(r.visited, <<term, term2>>))
    ELSE Ret(FALSE, Fail(r.visited, <<term, term2>>))

\* dfs without the early return on term == term2
DfsNoIdentity(term, term2, premise, visited, d) ==
    IF d > MaxStack THEN Abort(visited)
    ELSE IF <<term, term2>> \in visited.pairs THEN Ret(FALSE, visited)
    ELSE Unmark(Strategies(term, term2, premise,
                           Mark(visited, <<term, term2>>), d),
                term, term2)

\* dfs
Dfs(term, term2, premise, visited, d) ==
    IF d > MaxStack THEN Abort(visited)
    ELSE IF term = term2 THEN Ret(TRUE, visited)
    ELSE IF <<term, term2>> \in visited.pairs THEN Ret(FALSE, visited)
    ELSE Unmark(Strategies(term, term2, premise,
                           Mark(visited, <<term, term2>>), d),
                term, term2)

\* what the caller of equals sees
Outcome(r) ==
    IF r.abort THEN "stack overflow" ELSE IF r.res THEN "true" ELSE "false"

\* let mut visited = HashSet::new(); dfs(term1, term2, premise, &mut visited)
EqualsCall(term1, term2, premise) == Dfs(term1, term2, premise, Fresh, 1)

\* equals: "true", "false", or "stack overflow" when the process aborts
Equals(term1, term2, premise) == Outcome(EqualsCall(term1, term2, premise))

----------------------------------------------------------------------------
(* The host: it builds one premise and queries it. *)

\* the entries of the map, as ordered pairs (key, member of its set)
Entries(map) == UNION {{<<k, v>> : v \in map[k]} : k \in DOMAIN map}

\* the facts asserted: the unordered pairs behind the entries
Facts(map) == {{e[1], e[2]} : e \in Entries(map)}

\* the operations that build the premise, and the one that ends the building
BuildOps == {"default", "insert", "new_with_equalities", "insert_normalization"}

\* let premise = Premise::default()
Init ==
    /\ equalities = EmptyMap
    /\ normalizables = EmptyMap
    /\ op = "default"
    /\ args = <<>>
    /\ ret = <<>>
    /\ inProgress = {}
    /\ firstReg = EmptyMap

\* premise.insert(term1, term2), the premise holding at most n facts after it
InsertCall(term1, term2, n) ==
    /\ op \in BuildOps
    /\ Cardinality(Facts(Insert(equalities, term1, term2))) <= n
    /\ equalities' = Insert(equalities, term1, term2)
    /\ op' = "insert"
    /\ args' = <<term1, term2>>
    /\ ret' = <<>>
    /\ UNCHANGED <<normalizables, inProgress, firstReg>>

\* premise.insert(term1, term2), term1 drawn from T1 and term2 from T2
InsertOp(T1, T2, n) ==
    \E term1 \in T1, term2 \in T2 : InsertCall(term1, term2, n)

\* premise = Premise::new_with_equalities(terms), terms a list of pairs of T
NewWithEqualitiesOp(T, n) ==
    \E len \in 0..n :
        \E terms \in [1..len -> T \X T] :
            /\ op = "default"
            /\ equalities' = NewWithEqualities(EmptyMap, terms, 1)
            /\ normalizables' = EmptyMap
            /\ firstReg' = EmptyMap
            /\ op' = "new_with_equalities"
            /\ args' = <<terms>>
            /\ ret' = <<>>
            /\ UNCHANGED inProgress

\* premise.insert_normalization(symbol, parameters, equivalence)
InsertNormalizationOp(S, P, E) ==
    \E symbol \in S, parameters \in P, equivalence \in E :
        LET r == InsertNormalization(normalizables, symbol, parameters, equivalence)
        IN  /\ op \in BuildOps
            /\ normalizables' = r.map
            /\ ret' = r.ret
            /\ op' = "insert_normalization"
            /\ args' = <<symbol, parameters, equivalence>>
            /\ firstReg' =
                 IF symbol \in DOMAIN firstReg THEN firstReg
                 ELSE [s \in DOMAIN firstReg \cup {symbol} |->
                         IF s = symbol
                         THEN [parameters |-> parameters, equivalence |-> equivalence]
                         ELSE firstReg[s]]
            /\ UNCHANGED <<equalities, inProgress>>

\* the host stops building and hands &premise to its queries, each of which
\* reads the premise and leaves nothing behind for the next
HandOver ==
    /\ op \in BuildOps
    /\ op' = "built"
    /\ args' = <<>>
    /\ ret' = <<>>
    /\ UNCHANGED <<equalities, normalizables, inProgress, firstReg>>

\* premise.get_normalization(symbol)
GetNormalizationOp(S) ==
    \E symbol \in S :
        /\ op = "built"
        /\ op' = "get_normalization"
        /\ args' = <<symbol>>
        /\ ret' = GetNormalization(normalizables, symbol)
        /\ UNCHANGED <<equalities, normalizables, inProgress, firstReg>>

\* premise.get_normalization(symbol).unwrap().equivalence(arguments)
EquivalenceOp(A) ==
    \E symbol \in DOMAIN normalizables, arguments \in A :
        /\ op = "built"
        /\ op' = "equivalence"
        /\ args' = <<symbol, arguments>>
        /\ ret' = Equivalence(normalizables[symbol], arguments, 1)
        /\ UNCHANGED <<equalities, normalizables, inProgress, firstReg>>

\* equals(term1, term2, &premise)
EqualsOp(T1, T2) ==
    \E term1 \in T1, term2 \in T2 :
        LET r == EqualsCall(term1, term2, Premise(equalities, normalizables))
        IN  /\ op = "built"
            /\ op' = "equals"
            /\ args' = <<term1, term2>>
            /\ ret' = Outcome(r)
            /\ inProgress' = r.visited.pairs
            /\ UNCHANGED <<equalities, normalizables, firstReg>>

----------------------------------------------------------------------------
(* Spec: facts on atoms and applied terms, aliases, and queries on terms of
   all shapes. *)

\* facts a premise of Spec holds at most
MaxFacts == 1

Atoms == {0, 1}

Symbols == {0}

\* argument lists of length <= 1 of literals
LiteralArgs == {<<>>} \cup {<<Literal(a)>> : a \in Atoms}

\* the terms facts relate: the atoms and the applied terms f(), f(a)
FactTerms ==
    {Literal(a) : a \in Atoms}
    \cup {Function(s, a) : s \in Symbols, a \in LiteralArgs}

\* the terms queried and aliased to: those, and the expandable terms n(a)
Terms ==
    FactTerms \cup {Normalizable(s, <<Literal(a)>>) : s \in Symbols, a \in Atoms}

Parameters == {<<>>} \cup {<<a>> : a \in Atoms}

Next ==
    \/ InsertOp(FactTerms, FactTerms, MaxFacts)
    \/ NewWithEqualitiesOp(FactTerms, MaxFacts)
    \/ InsertNormalizationOp(Symbols, Parameters, Terms)
    \/ HandOver
    \/ GetNormalizationOp(Symbols)
    \/ EquivalenceOp(LiteralArgs)
    \/ EqualsOp(Terms, Terms)

Spec == Init /\ [][Next]_vars

----------------------------------------------------------------------------
(* SpecAlias: alias definitions only, of up to two parameters, and queries
   whose arguments may be applied terms. *)

\* parameters an alias of SpecAlias has at most
MaxParameters == 2

\* 0, 1, f(0), f(1)
ArgumentTerms ==
    {Literal(a) : a \in Atoms} \cup {Function(0, <<Literal(a)>>) : a \in Atoms}

AliasParameters == UNION {[1..n -> Atoms] : n \in 0..MaxParameters}

AliasArguments == UNION {[1..n -> ArgumentTerms] : n \in 0..MaxParameters}

\* 0, 1, f(0, 1) and n(f(0)), the last mentioning the alias's own symbol
AliasEquivalences ==
    {Literal(a) : a \in Atoms}
    \cup {Function(0, <<Literal(0), Literal(1)>>),
          Normalizable(0, <<Function(0, <<Literal(0)>>)>>)}

\* 0, 1, f(0), f(1), n(0), n(1), n(f(0)), n(f(1))
AliasTerms == ArgumentTerms \cup {Normalizable(0, <<t>>) : t \in ArgumentTerms}

NextAlias ==
    \/ InsertNormalizationOp(Symbols, AliasParameters, AliasEquivalences)
    \/ HandOver
    \/ EquivalenceOp(AliasArguments)
    \/ EqualsOp(AliasTerms, AliasTerms)

SpecAlias == Init /\ [][NextAlias]_vars

----------------------------------------------------------------------------
(* SpecAtoms: premises whose facts relate atoms only, queried on atoms. *)

\* facts a premise of SpecAtoms holds at most
MaxAtomFacts == 4

\* pairs new_with_equalities is handed at most
MaxBatch == 2

AtomTerms == {Literal(a) : a \in 0..4}

NextAtoms ==
    \/ InsertOp(AtomTerms, AtomTerms, MaxAtomFacts)
    \/ NewWithEqualitiesOp(AtomTerms, MaxBatch)
    \/ HandOver
    \/ EqualsOp(AtomTerms, AtomTerms)

SpecAtoms == Init /\ [][NextAtoms]_vars

----------------------------------------------------------------------------
(* SpecCongruence: facts on atoms, queried on S(a, a) and S(b1, b2). *)

\* facts a premise of SpecCongruence holds at most
MaxCongruenceFacts == 4

\* S(a1, a2) for the atoms a1, a2
CongruenceTerms ==
    {Function(0, <<a1, a2>>) : a1 \in AtomTerms, a2 \in AtomTerms}

\* S(a, a) for the atoms a
DiagonalTerms == {Function(0, <<a, a>>) : a \in AtomTerms}

\* premise.insert(a, b) for two different atoms, the smaller first
InsertAtomsOp(n) ==
    \E a \in 0..4, b \in 0..4 :
        a < b /\ InsertCall(Literal(a), Literal(b), n)

NextCongruence ==
    \/ InsertAtomsOp(MaxCongruenceFacts)
    \/ HandOver
    \/ EqualsOp(DiagonalTerms, CongruenceTerms)

SpecCongruence == Init /\ [][NextCongruence]_vars

----------------------------------------------------------------------------
(* SpecCyclic: the premise a = S(a), queried on S^n(a) and S^m(a). *)

\* the deepest nesting S^n(a) queried
MaxNest == 4

RECURSIVE Nest(_, _)
\* S^n(a)
Nest(n, a) == IF n = 0 THEN a ELSE Function(0, <<Nest(n - 1, a)>>)

\* a, S(a), .., S^MaxNest(a)
NestsOf(a) == {Nest(n, Literal(a)) : n \in 0..MaxNest}

NestTerms == UNION {NestsOf(a) : a \in Atoms}

\* premise.insert(a, S(a)) into the empty premise
InsertCyclicOp ==
    \E a \in Atoms : InsertCall(Literal(a), Nest(1, Literal(a)), 1)

NextCyclic ==
    \/ InsertCyclicOp
    \/ HandOver
    \/ EqualsOp(NestTerms, NestTerms)

SpecCyclic == Init /\ [][NextCyclic]_vars

----------------------------------------------------------------------------
(* SpecAsserted: one fact on terms of any shape, further facts on atoms,
   aliases that expand to an atom, each asserted pair queried in both orders. *)

\* facts on terms of any shape a premise of SpecAsserted holds at most
MaxGeneralFacts == 1

\* facts a premise of SpecAsserted holds at most
MaxAssertedFacts == 2

\* the atoms 0, 1
Literals == {Literal(a) : a \in Atoms}

\* 0, 1, f(0), f(1), n(0): a term of every shape
AssertedTerms ==
    Literals
    \cup {Function(0, <<Literal(a)>>) : a \in Atoms}
    \cup {Normalizable(0, <<Literal(0)>>)}

\* equals(A, B, &premise) for an entry (A, B) of the map: a fact or its mirror
EqualsAssertedOp ==
    \E e \in Entries(equalities) : EqualsOp({e[1]}, {e[2]})

NextAsserted ==
    \/ InsertOp(AssertedTerms, AssertedTerms, MaxGeneralFacts)
    \/ NewWithEqualitiesOp(AssertedTerms, MaxGeneralFacts)
    \/ InsertOp(Literals, Literals, MaxAssertedFacts)
    \/ InsertNormalizationOp(Symbols, Parameters, Literals)
    \/ HandOver
    \/ EqualsAssertedOp

SpecAsserted == Init /\ [][NextAsserted]_vars

----------------------------------------------------------------------------
(* Properties of the premise operations *)

Registered(a) == [parameters |-> a[2], equivalence |-> a[3]]

\* C9: insert_normalization returns true and stores the definition exactly when
\* the symbol had none, otherwise returns false and leaves the premise as it
\* was; get_normalization returns the first definition registered for a symbol
FirstWins ==
    [][ /\ op' = "insert_normalization" =>
            /\ ret' = (args'[1] \notin DOMAIN normalizables)
            /\ equalities' = equalities
            /\ \A s \in DOMAIN normalizables :
                  s \in DOMAIN normalizables' /\ normalizables'[s] = normalizables[s]
            /\ ret' => /\ DOMAIN normalizables' = DOMAIN normalizables \cup {args'[1]}
                       /\ normalizables'[args'[1]] = Registered(args')
            /\ ~ret' => normalizables' = normalizables
        /\ op' = "get_normalization" =>
            ret' = IF args'[1] \in DOMAIN firstReg'
                   THEN Some(firstReg'[args'[1]]) ELSE None
        /\ \A s \in DOMAIN firstReg' :
              GetNormalization(normalizables', s) = Some(firstReg'[s]) ]_vars

\* a second, different definition was offered for a defined symbol and refused
FirstWinsWitness ==
    /\ op = "insert_normalization"
    /\ ret = FALSE
    /\ normalizables[args[1]] # Registered(args)
    /\ equalities # EmptyMap


----------------------------------------------------------------------------
(* The relation equals is to decide: the smallest congruence that holds the  *)
(* asserted facts and relates an expandable term to its expansion, computed  *)
(* over the finite, subterm-closed set of terms U as a partition of U.       *)

RECURSIVE Subterms(_)
Subterms(t) ==
    {t} \cup UNION {Subterms(t.arguments[i]) : i \in 1..Len(t.arguments)}

\* the expansions (none or one) of term t under the alias definitions norm
Expansions(t, norm) ==
    {e \in {Expansion(t, [normalizables |-> norm], 0)} : e # None /\ e # Some(Overflow)}

\* U with the expansions of its members and their subterms
WithExpansions(U, norm) ==
    U \cup UNION {Subterms(e[1]) : e \in UNION {Expansions(t, norm) : t \in U}}

\* rounds of expansion the universe of the relation is closed under
MaxRounds == 2

RECURSIVE Expanded(_, _, _)
Expanded(U, norm, n) ==
    IF n = 0 THEN U ELSE Expanded(WithExpansions(U, norm), norm, n - 1)

\* the terms of the query, of the facts, and their expansions
Universe(term1, term2, eq, norm) ==
    Expanded(UNION {Subterms(t) : t \in {term1, term2} \cup DOMAIN eq},
             norm, MaxRounds)

Block(P, a) == CHOOSE B \in P : a \in B

MergeBlocks(P, A, B) == IF A = B THEN P ELSE (P \ {A, B}) \cup {A \cup B}

Merge(P, a, b) == MergeBlocks(P, Block(P, a), Block(P, b))

RECURSIVE MergeAll(_, _)

MergeOne(P, e, pairs) == MergeAll(Merge(P, e[1], e[2]), pairs \ {e})

MergeAll(P, pairs) ==
    IF pairs = {} THEN P ELSE MergeOne(P, CHOOSE e \in pairs : TRUE, pairs)

\* same shape, symbol and arity, and the arguments related position by position
Congruent(P, f, g) ==
    /\ f.kind = g.kind
    /\ f.kind # "Literal"
    /\ f.symbol = g.symbol
    /\ Len(f.arguments) = Len(g.arguments)
    /\ \A i \in 1..Len(f.arguments) :
          Block(P, f.arguments[i]) = Block(P, g.arguments[i])

NewCongruences(P, U) ==
    {e \in U \X U : Block(P, e[1]) # Block(P, e[2]) /\ Congruent(P, e[1], e[2])}

RECURSIVE Close(_, _)

CloseWith(P, U, new) == IF new = {} THEN P ELSE Close(MergeAll(P, new), U)

Close(P, U) == CloseWith(P, U, NewCongruences(P, U))

\* the facts, and each expandable term of U with its expansion
Asserted(U, eq, norm) ==
    Entries(eq) \cup UNION {{<<t, e[1]>> : e \in Expansions(t, norm)} : t \in U}

CongruenceOver(U, eq, norm) ==
    Close(MergeAll({{u} : u \in U}, Asserted(U, eq, norm)), U)

\* term1 and term2 are related by the congruence of the premise (eq, norm)
Related(term1, term2, eq, norm) ==
    \E B \in CongruenceOver(Universe(term1, term2, eq, norm), eq, norm) :
        term1 \in B /\ term2 \in B

----------------------------------------------------------------------------
(* Properties of equals *)

\* the premise of the state
ThePremise == Premise(equalities, normalizables)

\* C7: equals(t, t, p) is true for every term and premise, and the call leaves
\* the in-progress set empty: the pair is never recorded
Reflexivity ==
    (op = "equals" /\ args[1] = args[2]) => (ret = "true" /\ inProgress = {})

\* a term was compared with itself under a premise holding a fact on it and an alias
ReflexivityWitness ==
    /\ op = "equals"
    /\ args[1] = args[2]
    /\ args[1] \in DOMAIN equalities
    /\ normalizables # EmptyMap
    /\ ret = "true"

\* C3: equals(t1, t2, p) and equals(t2, t1, p) return the same boolean
Symmetry ==
    op = "equals" => ret = Equals(args[2], args[1], ThePremise)

Transitivity ==
    op = "equals" =>
        /\ ret = IF Related(args[1], args[2], equalities, EmptyMap)
                 THEN "true" ELSE "false"
        /\ ret = Equals(args[2], args[1], ThePremise)

\* two atoms were found equal that only a chain of three facts joins
TransitivityWitness ==
    /\ op = "equals"
    /\ ret = "true"
    /\ args[1] # args[2]
    /\ \A t \in equalities[args[1]] :
          t # args[2] /\ t # args[1] /\ args[2] \notin equalities[t]

\* C5: under facts on atoms, equals(S(a1, a2), S(b1, b2)) is true exactly when
\* at each position the two atoms are the same or joined by facts
Congruence ==
    op = "equals" =>
        /\ ret = IF \A i \in 1..2 :
                        Related(args[1].arguments[i], args[2].arguments[i],
                                equalities, EmptyMap)
                 THEN "true" ELSE "false"
        /\ ret = Equals(args[2], args[1], ThePremise)

\* C6: under the premise that asserts only a = S(a), equals(S^n(a), S^m(a))
\* returns true for all nesting depths n and m, in both orders
CyclicDefinition ==
    \A a \in Atoms :
        (/\ op = "equals"
         /\ Facts(equalities) = {{Literal(a), Nest(1, Literal(a))}}
         /\ args[1] \in NestsOf(a)
         /\ args[2] \in NestsOf(a)) => ret = "true"

\* S(a) was found equal to S(S(S(S(a)))) under a = S(a), the call of the test
CyclicDefinitionWitness ==
    /\ op = "equals"
    /\ Facts(equalities) = {{Literal(0), Nest(1, Literal(0))}}
    /\ args = <<Nest(1, Literal(0)), Nest(4, Literal(0))>>
    /\ ret = "true"

----------------------------------------------------------------------------
(* Properties of alias expansion *)

\* C1: equals returns a definite boolean for every pair of terms and every
\* premise, whatever alias definitions the premise holds
Total == op = "equals" => ret \in {"true", "false"}

RECURSIVE Replace(_, _, _)
\* term with every occurrence of from replaced by to, in one pass over term
Replace(term, from, to) ==
    IF term = from THEN to
    ELSE [term EXCEPT !.arguments =
            [i \in DOMAIN term.arguments |-> Replace(term.arguments[i], from, to)]]

RECURSIVE Sequentially(_, _, _, _)
\* the replacements of parameters[i] by arguments[i], for i = 1..n in that order
Sequentially(term, parameters, arguments, i) ==
    IF i > Len(parameters) THEN term
    ELSE Sequentially(Replace(term, Literal(parameters[i]), arguments[i]),
                      parameters, arguments, i + 1)

\* C10: equivalence(arguments) returns the definition's equivalence with the
\* parameters replaced one after the other by the arguments, and no expansion
\* when the argument count differs from the parameter count
SequentialExpansion ==
    op = "equivalence" =>
        ret = IF Len(normalizables[args[1]].parameters) # Len(args[2]) THEN None
              ELSE Some(Sequentially(normalizables[args[1]].equivalence,
                                     normalizables[args[1]].parameters,
                                     args[2], 1))

----------------------------------------------------------------------------
(* Properties of the steps of dfs *)

\* the pair of the query, recorded by the top-level dfs before its strategies
QueryMarked == Mark(Fresh, <<args[1], args[2]>>)

\* the unification step of the top-level dfs of the query
UnificationStep ==
    EqualsByUnification(args[1], args[2], ThePremise, QueryMarked, 1)

\* the normalization step of the top-level dfs, entered when unification failed
NormalizationStep ==
    EqualsByNormalization(args[1], args[2], ThePremise, UnificationStep.visited, 1)

\* the first path of the step: the expansion of term1 tested against term2
FirstPath ==
    DfsExpansion(Expansion(args[1], ThePremise, 1)[1], args[2], TRUE,
                 ThePremise, UnificationStep.visited, 1)

\* the symmetric path, taken after the first: term1 against term2's expansion
SymmetricPath ==
    NormalizeSecond(Expansion(args[2], ThePremise, 1), args[1], ThePremise,
                    FirstPath.visited, 1)

\* C11: when term1 has an expansion and the test of it against term2 fails,
\* the normalization step goes on to test term1 against the expansion of
\* term2, and it succeeds when either path succeeds
SymmetricNormalization ==
    (/\ op = "equals"
     /\ args[1] # args[2]
     /\ ~Stops(UnificationStep)
     /\ Expansion(args[1], ThePremise, 1) # None
     /\ ~FirstPath.abort
     /\ ~SymmetricPath.abort) =>
        NormalizationStep.res = (FirstPath.res \/ SymmetricPath.res)

\* the in-progress set and its history as the call of the state left them
CallHistory == EqualsCall(args[1], args[2], ThePremise).visited

\* C12: during a call of equals the in-progress set is, after every insert and
\* every return, the pairs of the frames on the stack together with the pairs
\* that failed by running out of strategies, and never holds a pair of
\* identical terms; a pair leaves the set only when its own frame returns
\* true, so when the call returns the set is the pairs that failed, the pair
\* of the query among them exactly when the answer is false, and dfs on a pair
\* of the set returns false and leaves the set as it is
InProgressPolicy ==
    op = "equals" =>
        /\ CallHistory.exact
        /\ inProgress = CallHistory.pairs
        /\ \A e \in inProgress : e[1] # e[2]
        /\ ret # "stack overflow" =>
              /\ CallHistory.stack = {}
              /\ inProgress = CallHistory.failed
              /\ (<<args[1], args[2]>> \in inProgress) = (ret = "false")
        /\ \A e \in inProgress :
              Dfs(e[1], e[2], ThePremise, CallHistory, 2)
                  = Ret(FALSE, CallHistory)

\* a call returned true and left behind two pairs that had failed on the way
InProgressPolicyWitness ==
    /\ op = "equals"
    /\ ret = "true"
    /\ Cardinality(inProgress) >= 2
    /\ inProgress = CallHistory.failed

\* C13: apply terminates on all finite terms, so every alias expansion with a
\* matching argument count returns a term, whatever atoms its arguments hold
ApplyTerminates ==
    (/\ op = "equivalence"
     /\ Len(normalizables[args[1]].parameters) = Len(args[2])) =>
        (ret # None /\ ret # Some(Overflow))

\* C14: for a pair (A, B) asserted in the premise, equals(A, B) and equals(B, A)
\* return true whenever they return, whatever other facts and aliases the
\* premise holds and whatever pairs the attempts before the lookup left marked
AssertedProvable ==
    (/\ op = "equals"
     /\ args[1] \in DOMAIN equalities
     /\ args[2] \in equalities[args[1]]
     /\ ret # "stack overflow") => ret = "true"

\* an asserted pair of different terms was found equal under a premise with
\* another fact and an alias, after earlier attempts had left pairs marked
AssertedProvableWitness ==
    /\ op = "equals"
    /\ args[1] # args[2]
    /\ args[1] \in DOMAIN equalities
    /\ args[2] \in equalities[args[1]]
    /\ Cardinality(Facts(equalities)) = 2
    /\ normalizables # EmptyMap
    /\ inProgress # {}
    /\ ret = "true"

=============================================================================
